---- MODULE Spec2Model ----
(***************************************************************************)
(* The tool-calling control loop of snow-assistant                         *)
(* (src/agents/workflow.py, LocalGPUAgent): the LangGraph workflow         *)
(*     agent -> tool_use -> (_should_continue) -> agent | end              *)
(* together with run() / run_async(), which seed the turn sequence, invoke *)
(* the graph and extract the final response.                               *)
(*                                                                         *)
(* Texts (model outputs, turn contents) are sequences of tokens.  A token  *)
(* is a piece of text that the code never looks inside:                    *)
(*   "_"                 one whitespace character                          *)
(*   "p"                 prose holding no brace and no banner marker       *)
(*   "Connected to", "Tools Available"   prose holding that banner marker  *)
(*   "{"  "}"  ","       the JSON structural characters                    *)
(*   "action:" "input:" "query:"   a JSON key with its colon               *)
(*   "search", "response", "7", "''", "null", ...   a JSON scalar: the     *)
(*                       string of that name, the number 7, the empty      *)
(*                       string, null                                      *)
(* strip(), startswith('{'), the regular expression \{.*\} and json.loads  *)
(* are modelled on these sequences by what they do.                        *)
(***************************************************************************)
EXTENDS Integers, Sequences, FiniteSets, TLC

VARIABLES
    pc,             \* where the run is: start, agent, tool_use, should_continue,
                    \* end, extract, done, returned, raised
    entry,          \* "run" or "run_async": the entry point of this invocation
    user_input,     \* the user_input argument
    chat_history,   \* the chat_history argument of run_async (<<>> when none)
    messages,       \* AgentState["messages"]
    current_tool,   \* AgentState["current_tool"]
    tool_input,     \* AgentState["tool_input"]
    tool_call_id,   \* AgentState["tool_call_id"]
    response,       \* _agent_node's local `response`: the raw output of the pass
    uuid_count,     \* how many uuid4() tokens _agent_node has generated
    llm_calls,      \* how many times llm.generate_stream has been called
    tool_calls,     \* how many times a capability's func has been called
    final_response, \* what run() / run_async() returns
    raised,         \* the exception that left run() / run_async(), if any
    classification, \* what the Response Interpreter made of the latest pass:
                    \* "ToolInvocation" or "DirectAnswer"
    tool_outcome,   \* what the capability called by the latest dispatch did
    prompt,         \* what the latest Reasoning pass put in its prompt: the
                    \* conversation lines and whether the synthesis instruction
    \* src/app.py: the Slack duplicate check and the message handler
    processed_slack_events, \* _processed_slack_events
    insertion_order,        \* the ids of that set, oldest insertion first
    slack_event_lock,       \* the handler that holds _slack_event_lock, or None
    handler_pc,             \* where each running main() handler is
    handler_event,          \* the event_ts of the delivery each handler serves
    handler_result,         \* what is_duplicate_slack_event returned to it
    handler_peers,          \* the handlers whose duplicate check ran alongside its own
    handler_error,          \* the exception its try block caught, if any
    handler_agent,          \* per handler: the session holds an agent
    handler_known,          \* per handler: the id was in the set at delivery and since
    handler_reply,          \* per handler: the message main sent, if any
    \* src/scheduler.py: SnowAnalysisScheduler.post_to_slack
    scheduler_pc,           \* where post_to_slack is
    timestamp,              \* len(timestamp), the formatted time of the post
    analysis,               \* the analysis text, as the lengths of its sections
    chunks,                 \* the messages to post
    posted,                 \* the messages chat_postMessage has been given
    global_scheduler,       \* scheduler.py's global _scheduler: NoScheduler or the instance
    stopped_scheduler,      \* the instance stop_scheduler dropped last, as stop() left it
    previous_call,          \* the call before last_call
    last_call,              \* which of start_scheduler / stop_scheduler returned last
    \* src/app.py, main lines 307-361: requests of one session, sharing its agent
    session_slack,          \* is_slack_platform() for the session
    last_result_state,      \* agent.last_result_state
    request_pc,             \* per request: where it is
    request_turns,          \* per request: the turns its own graph.invoke returned
    plots_sent              \* per request: the plot message was sent

loop_vars == <<pc, entry, user_input, chat_history, messages, current_tool, tool_input,
               tool_call_id, response, uuid_count, llm_calls, tool_calls,
               final_response, raised, classification, tool_outcome, prompt>>

app_vars == <<processed_slack_events, insertion_order, slack_event_lock, handler_pc,
              handler_event, handler_result, handler_peers, handler_error,
              handler_agent, handler_known, handler_reply>>

scheduler_vars == <<scheduler_pc, timestamp, analysis, chunks, posted,
                    global_scheduler, stopped_scheduler, previous_call, last_call>>

plot_vars == <<session_slack, last_result_state, request_pc, request_turns, plots_sent>>

vars == <<loop_vars, app_vars, scheduler_vars, plot_vars>>

---------------------------------------------------------------------------
(* Bounds *)

\* The number of Reasoning passes one invocation of the graph may make.  The
\* source puts no cap on the agent/tool_use cycle; what ends a cycle that never
\* answers is graph.invoke's recursion limit (LangGraph's default configuration),
\* which the model shrinks to this many passes.
MaxPasses == 2

\* The size the set of processed Slack event ids is cut back to (1000 in
\* src/app.py line 46), shrunk so that the set fills up within a few deliveries.
MaxProcessedEvents == 2

\* The number of sections (pieces between blank lines) of an analysis text.
MaxSections == 3

---------------------------------------------------------------------------
(* Python values *)

\* None where the slot otherwise holds a name or a token (a string) ...
None == "None"
\* ... and where it otherwise holds a text or a decoded JSON value (a sequence).
PyNone == <<"None">>
EmptyDict == <<"{", "}">>

---------------------------------------------------------------------------
(* Capability registry *)

ToolNames ==
    {"search", "nwac_avalanche_forecast", "noaa_area_forecast_discussion",
     "powder_poobah_forecast", "stevens_pass_comprehensive_weather",
     "stevens_pass_snow_analysis", "wsdot_pass_conditions",
     "stevens_pass_weather_plots"}

get_tool_by_name(name) == IF name \in ToolNames THEN name ELSE None

---------------------------------------------------------------------------
(* Text operations *)

Whitespace == {"_"}
BannerMarkers == {"Connected to", "Tools Available"}
Keys == {"action:", "input:", "query:"}
Scalars == {"search", "stevens_pass_comprehensive_weather", "response",
            "unregistered_tool", "7", "''", "null", "q", "x"}

RECURSIVE LStrip(_)
LStrip(t) == IF t # <<>> /\ Head(t) \in Whitespace THEN LStrip(Tail(t)) ELSE t

RECURSIVE RStrip(_)
RStrip(t) ==
    IF t # <<>> /\ t[Len(t)] \in Whitespace THEN RStrip(SubSeq(t, 1, Len(t) - 1)) ELSE t

\* str.strip()
Strip(t) == RStrip(LStrip(t))

\* str.startswith('{')
StartsWithBrace(t) == t # <<>> /\ t[1] = "{"

\* "Connected to" in content or "Tools Available" in content
HasBanner(t) == \E i \in 1..Len(t) : t[i] \in BannerMarkers

Positions(t, tok) == {i \in 1..Len(t) : t[i] = tok}
Min(S) == CHOOSE x \in S : \A y \in S : x <= y
Max(S) == CHOOSE x \in S : \A y \in S : x >= y

\* re.search(r'\{.*\}', t, re.DOTALL): the leftmost '{' that has a '}' after it,
\* up to the last '}' of the text (greedy, across lines); <<>> stands for no match,
\* a match being never empty.
RegexSearch(t) ==
    LET opens == Positions(t, "{")
        closes == Positions(t, "}")
    IN  IF opens = {} \/ closes = {} \/ Max(closes) < Min(opens)
        THEN <<>>
        ELSE SubSeq(t, Min(opens), Max(closes))

\* json.loads skips the whitespace between JSON tokens.
RECURSIVE DropWhitespace(_)
DropWhitespace(t) ==
    IF t = <<>> THEN <<>>
    ELSE IF Head(t) \in Whitespace THEN DropWhitespace(Tail(t))
    ELSE <<Head(t)>> \o DropWhitespace(Tail(t))

\* The JSON grammar, by recursive descent over the tokens.  Each operator takes
\* the position where its construct starts and gives the position after it, or
\* 0 when the tokens do not form the construct.
RECURSIVE ObjectEnd(_, _), MembersEnd(_, _)
ValueEnd(ts, i) ==
    IF i > Len(ts) THEN 0
    ELSE IF ts[i] \in Scalars THEN i + 1
    ELSE IF ts[i] = "{" THEN ObjectEnd(ts, i)
    ELSE 0

ObjectEnd(ts, i) ==
    IF i + 1 <= Len(ts) /\ ts[i + 1] = "}" THEN i + 2 ELSE MembersEnd(ts, i + 1)

MembersEnd(ts, i) ==
    IF i > Len(ts) \/ ts[i] \notin Keys THEN 0
    ELSE LET j == ValueEnd(ts, i + 1)
         IN  IF j = 0 \/ j > Len(ts) THEN 0
             ELSE IF ts[j] = "}" THEN j + 1
             ELSE IF ts[j] = "," THEN MembersEnd(ts, j + 1)
             ELSE 0

\* json.loads(s) returns: s is one JSON object and nothing else.  (A text that
\* starts with '{' decodes to a dict or raises JSONDecodeError.)
Decodes(s) ==
    LET ts == DropWhitespace(s)
    IN  ts # <<>> /\ ts[1] = "{" /\ ObjectEnd(ts, 1) = Len(ts) + 1

\* dict.get(key, default) on the decoded object: the value of the last member
\* with that key (json.loads keeps the last of duplicate keys), as its tokens.
RECURSIVE MemberGet(_, _, _, _)
MemberGet(ts, i, key, acc) ==
    IF ts[i] = "}" THEN acc
    ELSE LET j == ValueEnd(ts, i + 1)
             val == SubSeq(ts, i + 1, j - 1)
             acc2 == IF ts[i] = key THEN val ELSE acc
         IN  IF ts[j] = "," THEN MemberGet(ts, j + 1, key, acc2) ELSE acc2

\* JSON null decodes to None
PyValue(val) == IF val = <<"null">> THEN PyNone ELSE val

DictGet(s, key, default) == PyValue(MemberGet(DropWhitespace(s), 2, key, default))

\* Python truth of a decoded JSON value: None, "", and {} are false.
Truthy(val) == val \notin {PyNone, <<"''">>, EmptyDict}

---------------------------------------------------------------------------
(* Turns *)

HumanMessage(c) == [type |-> "human", content |-> c, name |-> None, tool_call_id |-> None]
AIMessage(c) == [type |-> "ai", content |-> c, name |-> None, tool_call_id |-> None]
ToolMessage(c, id, n) == [type |-> "tool", content |-> c, name |-> n, tool_call_id |-> id]

\* str(uuid.uuid4()): a token no earlier call has returned
Uuid(n) == "uuid-" \o ToString(n)

---------------------------------------------------------------------------
(* _agent_node: the Response Interpreter *)

\* `raises` names an exception that leaves the try block uncaught; the except
\* clause of line 174 catches the two the block can raise.
NoToolCall == [current_tool |-> None, tool_input |-> PyNone, raises |-> None]

\* (a plausible slip: the name is taken as it is, without the registry)
LookupAction_NoRegistry(action) == IF Len(action) = 1 THEN action[1] ELSE None

\* get_tool_by_name(action) on a decoded value: only a string can equal a name.
LookupAction(action) == IF Len(action) = 1 THEN get_tool_by_name(action[1]) ELSE None

\* (a plausible slip: looking for a '{' anywhere in the output)
LooksLikeToolCall_AnyBrace(response_stripped) == Positions(response_stripped, "{") # {}

\* Line 151: response_stripped.startswith('{')
LooksLikeToolCall(response_stripped) == StartsWithBrace(response_stripped)

\* (a plausible slip: trusting the model's action without the registry)
IsRealTool_Unchecked(action) == Truthy(action) /\ action # <<"response">>

\* Line 163: action and action != "response" and get_tool_by_name(action)
IsRealTool(action) ==
    Truthy(action) /\ action # <<"response">> /\ LookupAction(action) # None

\* (a plausible slip: tool_call.get("input") with no default)
InputOf_NoDefault(json_match) == DictGet(json_match, "input:", PyNone)

\* Line 165: tool_call.get("input", {})
InputOf(json_match) == DictGet(json_match, "input:", EmptyDict)

\* (a plausible slip: no except clause around json.loads)
OnDecodeError_Uncaught ==
    [current_tool |-> None, tool_input |-> PyNone, raises |-> "JSONDecodeError"]

\* Lines 174-175: except (json.JSONDecodeError, AttributeError): log and go on
OnDecodeError == NoToolCall

\* Lines 143-175: the tool call the raw output holds, if any.
Interpret(resp) ==
    LET response_stripped == Strip(resp)
        json_match == RegexSearch(response_stripped)
    IN  IF ~LooksLikeToolCall(response_stripped) THEN NoToolCall
        ELSE IF json_match = <<>> THEN NoToolCall
        ELSE IF ~Decodes(json_match) THEN OnDecodeError
        ELSE LET action == DictGet(json_match, "action:", PyNone)
             IN  IF IsRealTool(action)
                 THEN [current_tool |-> action[1],
                       tool_input |-> InputOf(json_match),
                       raises |-> None]
                 ELSE NoToolCall

\* (a plausible slip: the raw call is kept as an Assistant turn)
agent_node_KeepsRawCall(msgs, resp, fresh) ==
    LET call == Interpret(resp)
    IN  [messages |-> Append(msgs, AIMessage(resp)),
         current_tool |-> call.current_tool,
         tool_input |-> call.tool_input,
         tool_call_id |-> IF call.current_tool # None THEN fresh ELSE None,
         raises |-> call.raises]

\* (a plausible slip: one token for every call instead of a new uuid4)
agent_node_ReusesToken(msgs, resp, fresh) ==
    LET call == Interpret(resp)
    IN  IF call.current_tool # None
        THEN [messages |-> msgs,
              current_tool |-> call.current_tool,
              tool_input |-> call.tool_input,
              tool_call_id |-> "uuid-1",
              raises |-> call.raises]
        ELSE [messages |-> Append(msgs, AIMessage(resp)),
              current_tool |-> None,
              tool_input |-> PyNone,
              tool_call_id |-> None,
              raises |-> call.raises]

\* (a plausible slip: the node returns only its new turn, as it would under a
\* reducer that adds to the state's list)
agent_node_ReturnsOnlyNew(msgs, resp, fresh) ==
    LET call == Interpret(resp)
    IN  IF call.current_tool # None
        THEN [messages |-> msgs,
              current_tool |-> call.current_tool,
              tool_input |-> call.tool_input,
              tool_call_id |-> fresh,
              raises |-> call.raises]
        ELSE [messages |-> <<AIMessage(resp)>>,
              current_tool |-> None,
              tool_input |-> PyNone,
              tool_call_id |-> None,
              raises |-> call.raises]

\* Lines 177-193: the state _agent_node returns, given the raw output and the
\* uuid4 token that a recognised call would get.
agent_node(msgs, resp, fresh) ==
    LET call == Interpret(resp)
    IN  IF call.current_tool # None
        THEN [messages |-> msgs,
              current_tool |-> call.current_tool,
              tool_input |-> call.tool_input,
              tool_call_id |-> fresh,
              raises |-> call.raises]
        ELSE [messages |-> Append(msgs, AIMessage(resp)),
              current_tool |-> None,
              tool_input |-> PyNone,
              tool_call_id |-> None,
              raises |-> call.raises]

---------------------------------------------------------------------------
(* _agent_node: the prompt *)

\* Line 103: messages[-10:] if len(messages) > 10 else messages
RecentMessages(msgs) ==
    IF Len(msgs) > 10 THEN SubSeq(msgs, Len(msgs) - 9, Len(msgs)) ELSE msgs

\* (a plausible slip: no turn is left out)
InConversation_NoFilter(msg) == TRUE

\* Lines 105-117: a User turn and a ToolResult turn always give a line; an
\* Assistant turn does unless its content holds a banner marker.
InConversation(msg) ==
    \/ msg.type = "human"
    \/ msg.type = "tool"
    \/ msg.type = "ai" /\ ~HasBanner(msg.content)

\* Lines 106-117: "User: ...", "Assistant: ...", "[Tool Result from <name>]: ...".
\* (A ToolResult text of over 1000 characters is cut there; the texts of
\* ToolResults are shorter.)
ConversationLine(msg) ==
    [label |-> IF msg.type = "human" THEN "User"
               ELSE IF msg.type = "ai" THEN "Assistant" ELSE "Tool Result",
     name |-> msg.name,
     content |-> msg.content]

RECURSIVE ConversationLines(_)
ConversationLines(msgs) ==
    IF msgs = <<>> THEN <<>>
    ELSE (IF InConversation(Head(msgs)) THEN <<ConversationLine(Head(msgs))>> ELSE <<>>)
         \o ConversationLines(Tail(msgs))

\* (a plausible slip: the test looks for an Assistant turn)
NeedsSynthesis_AfterAssistant(msgs) == msgs # <<>> /\ msgs[Len(msgs)].type = "ai"

\* Line 121: messages and isinstance(messages[-1], ToolMessage)
NeedsSynthesis(msgs) == msgs # <<>> /\ msgs[Len(msgs)].type = "tool"

\* Before any pass: no prompt yet.
NoPrompt == [conversation |-> <<>>, synthesis |-> FALSE]

\* Lines 99-125: the conversation text ("User: Hello" when it has no line)
\* and whether the synthesis instruction follows it.
BuildPrompt(msgs) ==
    LET conversation == ConversationLines(RecentMessages(msgs))
    IN  [conversation |-> IF conversation = <<>>
                          THEN <<[label |-> "User", name |-> None, content |-> <<"Hello">>]>>
                          ELSE conversation,
         synthesis |-> NeedsSynthesis(msgs)]

---------------------------------------------------------------------------
(* _tool_use_node *)

\* What calling a capability's func can do: return a value whose str() is
\* `text`, or raise an Exception whose str() is `text`.
ToolResults == {<<"p">>, <<>>}
ErrorMessages == {<<"p">>}
Outcomes == [kind : {"return"}, text : ToolResults] \cup [kind : {"raise"}, text : ErrorMessages]
NoOutcome == [kind |-> "none", text |-> <<>>]

NotFoundText(name) == <<"Tool '", name, "' not found">>
ExecutionErrorText(msg) == <<"Tool execution error: ">> \o msg

\* Lines 207-224: tool.func is called when the pending name resolves.
CallsCapability(ct) == ct # None /\ get_tool_by_name(ct) # None

\* (a plausible slip: the result is appended on both sides of the try block)
tool_use_node_AppendsTwice(msgs, ct, id, outcome) ==
    LET cleared(ms) == [messages |-> ms, current_tool |-> None,
                        tool_input |-> PyNone, tool_call_id |-> None]
    IN  IF ct = None THEN cleared(msgs)
        ELSE IF outcome.kind = "return"
             THEN cleared(msgs \o <<ToolMessage(outcome.text, id, ct),
                                    ToolMessage(outcome.text, id, ct)>>)
        ELSE cleared(Append(msgs, ToolMessage(ExecutionErrorText(outcome.text), id, None)))

\* (a plausible slip: the error turn gets a new token instead of the pending one)
tool_use_node_ErrorUncorrelated(msgs, ct, id, outcome) ==
    LET cleared(ms) == [messages |-> ms, current_tool |-> None,
                        tool_input |-> PyNone, tool_call_id |-> None]
    IN  IF ct = None THEN cleared(msgs)
        ELSE IF outcome.kind = "return"
             THEN cleared(Append(msgs, ToolMessage(outcome.text, id, ct)))
        ELSE cleared(Append(msgs, ToolMessage(ExecutionErrorText(outcome.text),
                                              "uuid-new", None)))

\* (a plausible slip: an unresolved name is dropped without a turn)
tool_use_node_NotFoundSilent(msgs, ct, id, outcome) ==
    LET cleared(ms) == [messages |-> ms, current_tool |-> None,
                        tool_input |-> PyNone, tool_call_id |-> None]
    IN  IF ct = None \/ get_tool_by_name(ct) = None THEN cleared(msgs)
        ELSE IF outcome.kind = "return"
             THEN cleared(Append(msgs, ToolMessage(outcome.text, id, ct)))
        ELSE cleared(Append(msgs, ToolMessage(ExecutionErrorText(outcome.text), id, None)))

\* (a plausible slip: the token is not cleared with the other pending fields)
tool_use_node_KeepsToken(msgs, ct, id, outcome) ==
    LET cleared(ms) == [messages |-> ms, current_tool |-> None,
                        tool_input |-> PyNone, tool_call_id |-> id]
    IN  IF ct = None THEN cleared(msgs)
        ELSE IF outcome.kind = "return"
             THEN cleared(Append(msgs, ToolMessage(outcome.text, id, ct)))
        ELSE cleared(Append(msgs, ToolMessage(ExecutionErrorText(outcome.text), id, None)))

\* Lines 195-259: the state _tool_use_node returns.
tool_use_node(msgs, ct, id, outcome) ==
    LET cleared(ms) == [messages |-> ms, current_tool |-> None,
                        tool_input |-> PyNone, tool_call_id |-> None]
    IN  IF ct = None THEN cleared(msgs)
        ELSE IF get_tool_by_name(ct) = None
             THEN cleared(Append(msgs, ToolMessage(NotFoundText(ct), id, None)))
        ELSE IF outcome.kind = "return"
             THEN cleared(Append(msgs, ToolMessage(outcome.text, id, ct)))
        ELSE cleared(Append(msgs, ToolMessage(ExecutionErrorText(outcome.text), id, None)))

---------------------------------------------------------------------------
(* _should_continue *)

\* (a plausible slip: any ToolMessage in the turns, not the last turn)
should_continue_AnyToolMessage(msgs, ct) ==
    IF ct # None THEN "continue"
    ELSE IF \E i \in 1..Len(msgs) : msgs[i].type = "tool" THEN "continue"
    ELSE "end"

\* Lines 284-306
should_continue(msgs, ct) ==
    IF ct # None THEN "continue"
    ELSE IF msgs # <<>> /\ msgs[Len(msgs)].type = "tool" THEN "continue"
    ELSE "end"

---------------------------------------------------------------------------
(* run / run_async *)

Providers == {"ollama", "openai"}

\* (a plausible slip: one message for every provider)
ConnectionError_Generic(provider) == <<"Error: Cannot connect to LLM provider">>

\* run lines 321-327, run_async lines 388-394
ConnectionError(provider) == <<"Error: Cannot connect to ", provider>>

\* run_async lines 396-409: LangChain messages from the OpenAI-format history
RECURSIVE ConvertHistory(_)
ConvertHistory(h) ==
    IF h = <<>> THEN <<>>
    ELSE LET msg == Head(h)
             rest == ConvertHistory(Tail(h))
         IN  IF msg.role = "user" THEN <<HumanMessage(msg.content)>> \o rest
             ELSE IF msg.role = "assistant" THEN <<AIMessage(msg.content)>> \o rest
             ELSE rest

\* run lines 329-334, run_async lines 396-416
InitialMessages(e, input, history) ==
    IF e = "run_async" /\ history # <<>>
    THEN ConvertHistory(history)
    ELSE <<HumanMessage(input)>>

\* (a plausible slip: the first AIMessage instead of the last)
ExtractFinalResponse_FirstAI(msgs) ==
    LET ais == {i \in 1..Len(msgs) : msgs[i].type = "ai" /\ ~HasBanner(msgs[i].content)}
    IN  IF ais # {} /\ msgs[Min(ais)].content # <<>>
        THEN msgs[Min(ais)].content ELSE <<"No response generated">>

\* (a plausible slip: the fixed text of the last line is missing)
ExtractFinalResponse_NoFixedText(msgs) ==
    LET ais == {i \in 1..Len(msgs) : msgs[i].type = "ai" /\ ~HasBanner(msgs[i].content)}
        tls == {i \in 1..Len(msgs) : msgs[i].type = "tool"}
        fromAI == IF ais # {} THEN msgs[Max(ais)].content ELSE <<>>
        fromTool == IF fromAI = <<>> /\ tls # {} THEN msgs[Max(tls)].content ELSE fromAI
    IN  IF fromTool = <<>> /\ msgs # <<>> THEN msgs[Len(msgs)].content ELSE fromTool

\* run lines 338-362, run_async lines 455-478.  None and "" are both false
\* in `if not final_response`; <<>> stands for either until the last line.
ExtractFinalResponse(msgs) ==
    LET ais == {i \in 1..Len(msgs) : msgs[i].type = "ai" /\ ~HasBanner(msgs[i].content)}
        tls == {i \in 1..Len(msgs) : msgs[i].type = "tool"}
        fromAI == IF ais # {} THEN msgs[Max(ais)].content ELSE <<>>
        fromTool == IF fromAI = <<>> /\ tls # {} THEN msgs[Max(tls)].content ELSE fromAI
        fromLast == IF fromTool = <<>> /\ msgs # <<>> THEN msgs[Len(msgs)].content ELSE fromTool
    IN  IF fromLast = <<>> THEN <<"No response generated">> ELSE fromLast

---------------------------------------------------------------------------
(* The inputs of the model *)

\* What a model generation call may return.
ActionValues == {"search", "stevens_pass_comprehensive_weather", "response",
                 "unregistered_tool", "7", "''"}
InputValues == {EmptyDict, <<"{", "query:", "q", "}">>, <<"x">>, <<"null">>}

\* Well-formed JSON objects: {}, {action}, {action, input}, {input, action},
\* {input}, and an action key given twice.
JsonObjects ==
    {EmptyDict}
    \cup {<<"{", "action:", a, "}">> : a \in ActionValues}
    \cup {<<"{", "action:", a, ",", "input:">> \o i \o <<"}">> :
            a \in ActionValues, i \in InputValues}
    \cup {<<"{", "input:">> \o i \o <<",", "action:", a, "}">> :
            a \in {"search", "response"}, i \in InputValues}
    \cup {<<"{", "input:">> \o i \o <<"}">> : i \in InputValues}
    \cup {<<"{", "action:", a, ",", "action:", b, "}">> :
            a \in {"search", "response"}, b \in {"search", "response"}}
    \cup {<<"{", "_", "action:", "_", "search", "_", "}">>}

\* Texts that start with '{' and are no JSON object.
BrokenObjects ==
    {<<"{">>,
     <<"{", "action:", "search">>,
     <<"{", "action:", "search", ",", "input:", "{", "}">>,
     <<"{", "p", "}">>,
     <<"{", "action:", "search", ",", "}">>,
     <<"{", "action:", "search", "}", "}">>,
     <<"{", "action:", "search", "}", "{", "action:", "search", "}">>,
     <<"{", "action:", "{", "}", "}", "p", "}">>}

ProseTexts == {<<>>, <<"p">>, <<"Connected to", "p">>, <<"p", "Tools Available">>}

Leads == {<<>>, <<"_">>, <<"p">>, <<"_", "p", "_">>}
Trails == {<<>>, <<"_">>, <<"_", "p">>}

ModelOutputs ==
    {l \o o \o t : l \in Leads, o \in JsonObjects \cup BrokenObjects, t \in Trails}
    \cup {l \o p : l \in {<<>>, <<"_">>}, p \in ProseTexts}

\* The arguments of run / run_async.
UserInputs == {<<"u">>}
ChatHistories ==
    {<<>>,
     <<[role |-> "user", content |-> <<"u">>]>>,
     <<[role |-> "assistant", content |-> <<"Connected to", "p">>],
       [role |-> "user", content |-> <<"u">>]>>,
     <<[role |-> "system", content |-> <<"p">>],
       [role |-> "user", content |-> <<"p">>],
       [role |-> "assistant", content |-> <<"p", "p">>],
       [role |-> "user", content |-> <<"u">>]>>,
     \* a history that does not end with the current message, its User turn
     \* quoting a banner
     <<[role |-> "user", content |-> <<"Connected to", "u">>],
       [role |-> "assistant", content |-> <<"p">>]>>}

---------------------------------------------------------------------------
(* The parts of the program that a specification leaves at rest *)

\* The main() handlers that may run at once (each serves one delivery at a time).
Handlers == {"h1", "h2"}

\* No request is being served by the loop.
LoopIdle ==
    /\ pc = "idle"
    /\ entry = "run"
    /\ user_input = <<>>
    /\ chat_history = <<>>
    /\ messages = <<>>
    /\ current_tool = None
    /\ tool_input = PyNone
    /\ tool_call_id = None
    /\ response = PyNone
    /\ uuid_count = 0
    /\ llm_calls = 0
    /\ tool_calls = 0
    /\ final_response = PyNone
    /\ raised = None
    /\ classification = None
    /\ tool_outcome = NoOutcome
    /\ prompt = NoPrompt

\* app.py lines 15-17 at import: the set is empty, the lock free, no handler runs.
AppIdle ==
    /\ processed_slack_events = {}
    /\ insertion_order = <<>>
    /\ slack_event_lock = None
    /\ handler_pc = [h \in Handlers |-> "idle"]
    /\ handler_event = [h \in Handlers |-> None]
    /\ handler_result = [h \in Handlers |-> None]
    /\ handler_peers = [h \in Handlers |-> {}]
    /\ handler_error = [h \in Handlers |-> None]
    /\ handler_agent = [h \in Handlers |-> TRUE]
    /\ handler_known = [h \in Handlers |-> FALSE]
    /\ handler_reply = [h \in Handlers |-> None]

\* The requests of one session that are in main at once.
Requests == {"r1", "r2"}

\* getattr(agent, 'last_result_state', None) before any graph.invoke returned:
\* a record, to be comparable with the records that stand for a result state.
NoState == [none |-> TRUE]

\* No request is between its run_async call and its plot step.
PlotIdle ==
    /\ session_slack = FALSE
    /\ last_result_state = NoState
    /\ request_pc = [r \in Requests |-> "idle"]
    /\ request_turns = [r \in Requests |-> <<>>]
    /\ plots_sent = [r \in Requests |-> FALSE]

\* _scheduler = None (scheduler.py line 172): a record, to be comparable with
\* the records that stand for an instance.
NoScheduler == [none |-> TRUE]

\* No post_to_slack call is in progress and there is no scheduler instance.
SchedulerIdle ==
    /\ scheduler_pc = "idle"
    /\ timestamp = 0
    /\ analysis = <<>>
    /\ chunks = <<>>
    /\ posted = <<>>
    /\ global_scheduler = NoScheduler
    /\ stopped_scheduler = NoScheduler
    /\ previous_call = "none"
    /\ last_call = "none"

---------------------------------------------------------------------------
(* The state machine *)

Init ==
    /\ AppIdle
    /\ SchedulerIdle
    /\ PlotIdle
    /\ pc = "start"
    /\ entry \in {"run", "run_async"}
    /\ user_input \in UserInputs
    /\ chat_history \in IF entry = "run" THEN {<<>>} ELSE ChatHistories
    /\ messages = <<>>
    /\ current_tool = None
    /\ tool_input = PyNone
    /\ tool_call_id = None
    /\ response = PyNone
    /\ uuid_count = 0
    /\ llm_calls = 0
    /\ tool_calls = 0
    /\ final_response = PyNone
    /\ raised = None
    /\ classification = None
    /\ tool_outcome = NoOutcome
    /\ prompt = NoPrompt

\* run lines 319-327, run_async lines 386-394: check_connection() is false
ConnectionFails ==
    /\ pc = "start"
    /\ \E provider \in Providers : final_response' = ConnectionError(provider)
    /\ pc' = "returned"
    /\ UNCHANGED <<plot_vars, app_vars, scheduler_vars,
                   entry, user_input, chat_history, prompt, messages, current_tool, tool_input,
                   tool_call_id, response, uuid_count, llm_calls, tool_calls, raised,
                   classification, tool_outcome>>

\* run lines 329-336, run_async lines 396-443: the graph is entered at "agent"
EnterGraph ==
    /\ pc = "start"
    /\ messages' = InitialMessages(entry, user_input, chat_history)
    /\ current_tool' = None
    /\ tool_input' = PyNone
    /\ tool_call_id' = None
    /\ pc' = "agent"
    /\ UNCHANGED <<plot_vars, app_vars, scheduler_vars,
                   entry, user_input, chat_history, prompt, response, uuid_count, llm_calls,
                   tool_calls, final_response, raised, classification, tool_outcome>>

\* _agent_node, the model call returning `t`
AgentNode ==
    /\ pc = "agent"
    /\ llm_calls < MaxPasses
    /\ \E t \in ModelOutputs :
         LET ret == agent_node(messages, t, Uuid(uuid_count + 1))
         IN  /\ response' = t
             /\ prompt' = BuildPrompt(messages)
             /\ IF ret.raises = None
                THEN /\ messages' = ret.messages
                     /\ current_tool' = ret.current_tool
                     /\ tool_input' = ret.tool_input
                     /\ tool_call_id' = ret.tool_call_id
                     /\ uuid_count' = IF ret.tool_call_id # None
                                      THEN uuid_count + 1 ELSE uuid_count
                     /\ classification' = IF ret.current_tool # None
                                          THEN "ToolInvocation" ELSE "DirectAnswer"
                     /\ pc' = "tool_use"
                     /\ raised' = None
                ELSE /\ pc' = "raised"
                     /\ raised' = ret.raises
                     /\ UNCHANGED <<messages, current_tool, tool_input, tool_call_id,
                                    uuid_count, classification>>
    /\ llm_calls' = llm_calls + 1
    /\ UNCHANGED <<plot_vars, app_vars, scheduler_vars,
                   entry, user_input, chat_history, tool_calls, final_response,
                   tool_outcome>>

\* (a plausible slip: the failed model call is tried again)
GatewayFailure_Retried ==
    /\ pc = "agent"
    /\ llm_calls < MaxPasses
    /\ llm_calls' = llm_calls + 1
    /\ raised' = "GatewayFailure"
    /\ prompt' = BuildPrompt(messages)
    /\ pc' = "agent"
    /\ UNCHANGED <<plot_vars, app_vars, scheduler_vars,
                   entry, user_input, chat_history, messages, current_tool, tool_input,
                   tool_call_id, response, uuid_count, tool_calls, final_response,
                   classification, tool_outcome>>

\* _agent_node lines 130-134, the model call raising: nothing catches it in the
\* graph or in run(); run_async logs it and raises it again (lines 489-494)
GatewayFailure ==
    /\ pc = "agent"
    /\ llm_calls < MaxPasses
    /\ llm_calls' = llm_calls + 1
    /\ raised' = "GatewayFailure"
    /\ prompt' = BuildPrompt(messages)
    /\ pc' = "raised"
    /\ UNCHANGED <<plot_vars, app_vars, scheduler_vars,
                   entry, user_input, chat_history, messages, current_tool, tool_input,
                   tool_call_id, response, uuid_count, tool_calls, final_response,
                   classification, tool_outcome>>

\* graph.invoke gives up on a cycle that has used up its passes
RecursionLimit ==
    /\ pc = "agent"
    /\ llm_calls >= MaxPasses
    /\ raised' = "GraphRecursionError"
    /\ pc' = "raised"
    /\ UNCHANGED <<plot_vars, app_vars, scheduler_vars,
                   entry, user_input, chat_history, prompt, messages, current_tool, tool_input,
                   tool_call_id, response, uuid_count, llm_calls, tool_calls,
                   final_response, classification, tool_outcome>>

\* _tool_use_node, the capability (if one is called) ending in `outcome`
ToolUseNode ==
    /\ pc = "tool_use"
    /\ \E outcome \in Outcomes :
         LET ret == tool_use_node(messages, current_tool, tool_call_id, outcome)
         IN  /\ messages' = ret.messages
             /\ current_tool' = ret.current_tool
             /\ tool_input' = ret.tool_input
             /\ tool_call_id' = ret.tool_call_id
             /\ tool_outcome' = IF CallsCapability(current_tool) THEN outcome ELSE NoOutcome
    /\ tool_calls' = IF CallsCapability(current_tool) THEN tool_calls + 1 ELSE tool_calls
    /\ response' = PyNone
    /\ pc' = "should_continue"
    /\ UNCHANGED <<plot_vars, app_vars, scheduler_vars,
                   entry, user_input, chat_history, prompt, uuid_count, llm_calls,
                   final_response, raised, classification>>

\* the conditional edge after tool_use
ShouldContinue ==
    /\ pc = "should_continue"
    /\ pc' = IF should_continue(messages, current_tool) = "continue" THEN "agent" ELSE "end"
    /\ UNCHANGED <<plot_vars, app_vars, scheduler_vars,
                   entry, user_input, chat_history, prompt, messages, current_tool, tool_input,
                   tool_call_id, response, uuid_count, llm_calls, tool_calls,
                   final_response, raised, classification, tool_outcome>>

\* _end_node: the turns as they are, the pending fields None
EndNode ==
    /\ pc = "end"
    /\ current_tool' = None
    /\ tool_input' = PyNone
    /\ tool_call_id' = None
    /\ pc' = "extract"
    /\ UNCHANGED <<plot_vars, app_vars, scheduler_vars,
                   entry, user_input, chat_history, prompt, messages, response, uuid_count,
                   llm_calls, tool_calls, final_response, raised, classification,
                   tool_outcome>>

\* run lines 338-364, run_async lines 455-487
ReturnFinalResponse ==
    /\ pc = "extract"
    /\ final_response' = ExtractFinalResponse(messages)
    /\ pc' = "done"
    /\ UNCHANGED <<plot_vars, app_vars, scheduler_vars,
                   entry, user_input, chat_history, prompt, messages, current_tool, tool_input,
                   tool_call_id, response, uuid_count, llm_calls, tool_calls, raised,
                   classification, tool_outcome>>

Next ==
    \/ ConnectionFails
    \/ EnterGraph
    \/ AgentNode
    \/ GatewayFailure
    \/ RecursionLimit
    \/ ToolUseNode
    \/ ShouldContinue
    \/ EndNode
    \/ ReturnFinalResponse

Spec == Init /\ [][Next]_vars

\* The loop is single-threaded and synchronous: a step that can be taken is taken.
FairSpec == Spec /\ WF_vars(Next)

TypeOK ==
    /\ pc \in {"start", "agent", "tool_use", "should_continue", "end", "extract",
               "done", "returned", "raised"}
    /\ current_tool \in ToolNames \cup {None}
    /\ raised \in {None, "GatewayFailure", "GraphRecursionError"}
    /\ classification \in {None, "ToolInvocation", "DirectAnswer"}
    /\ tool_outcome \in Outcomes \cup {NoOutcome}
    /\ llm_calls \in 0..MaxPasses
    /\ tool_calls \in 0..MaxPasses

---------------------------------------------------------------------------
(* _tool_use_node and _should_continue as functions of any AgentState *)

\* The AgentStates handed to _tool_use_node: a pending name that the registry
\* resolves, one that it does not, or none; the turns so far.
PendingNames == ToolNames \cup {None, "unregistered_tool", "calculator"}
PendingInputs == {PyNone, EmptyDict, <<"{", "query:", "q", "}">>}
PendingTokens == {"uuid-1", "uuid-2"}
TurnsSoFar ==
    {<<HumanMessage(<<"u">>)>>,
     <<HumanMessage(<<"u">>), AIMessage(<<"p">>), HumanMessage(<<"u">>)>>,
     <<HumanMessage(<<"u">>), ToolMessage(<<"p">>, "uuid-0", "search")>>}

DispatchInit ==
    /\ AppIdle
    /\ SchedulerIdle
    /\ PlotIdle
    /\ pc = "tool_use"
    /\ entry = "run"
    /\ user_input \in UserInputs
    /\ chat_history = <<>>
    /\ messages \in TurnsSoFar
    /\ current_tool \in PendingNames
    /\ tool_input \in IF current_tool = None THEN {PyNone} ELSE PendingInputs
    /\ tool_call_id \in IF current_tool = None THEN {None} ELSE PendingTokens
    /\ response = PyNone
    /\ uuid_count = 2
    /\ llm_calls = 1
    /\ tool_calls = 0
    /\ final_response = PyNone
    /\ raised = None
    /\ classification = IF current_tool = None THEN "DirectAnswer" ELSE "ToolInvocation"
    /\ tool_outcome = NoOutcome
    /\ prompt = NoPrompt

DispatchNext ==
    \/ ToolUseNode
    \/ ShouldContinue

DispatchSpec == DispatchInit /\ [][DispatchNext]_vars

---------------------------------------------------------------------------
(* src/app.py: main() and is_duplicate_slack_event() *)

\* The event_ts values Slack delivers.  A delivery whose handler_event is None
\* has no Slack event id: the session is not a Slack session, or the event
\* carries no event_ts (lines 27-37), and the duplicate check records nothing.
EventIds == {"e1", "e2", "e3", "e4"}

\* (a plausible slip: the size test is off by one)
NeedsEviction_OffByOne(events) == Cardinality(events) > MaxProcessedEvents + 1

\* Line 46: len(_processed_slack_events) > 1000
NeedsEviction(events) == Cardinality(events) > MaxProcessedEvents

\* Line 47: set.pop() removes and returns an arbitrary element of the set.
PopResults(events) == events

Without(seq, x) == SelectSeq(seq, LAMBDA y : y # x)

\* The handlers that are at the start of the duplicate check for event id e.
AtDuplicateCheck(e) == {g \in Handlers : handler_pc[g] = "is_duplicate" /\ handler_event[g] = e}

\* main() is called with a message (lines 222-239).  A session without an
\* agent gets the "not initialized" message and main returns (lines 222-229).
\* With a Slack event id main calls is_duplicate_slack_event, which reads the id
\* (lines 30-37).
Deliver(h) ==
    /\ handler_pc[h] = "idle"
    /\ \E e \in EventIds \cup {None}, agent \in BOOLEAN :
         LET together == IF agent /\ e # None /\ e \notin processed_slack_events
                         THEN AtDuplicateCheck(e) \ {h} ELSE {}
         IN  /\ handler_event' = [handler_event EXCEPT ![h] = e]
             /\ handler_agent' = [handler_agent EXCEPT ![h] = agent]
             /\ handler_known' = [handler_known EXCEPT
                                    ![h] = e # None /\ e \in processed_slack_events]
             /\ handler_reply' = [handler_reply EXCEPT
                                    ![h] = IF agent THEN None ELSE "agent_error"]
             /\ handler_pc' = [handler_pc EXCEPT
                                 ![h] = IF ~agent THEN "idle"
                                        ELSE IF e = None THEN "check_connection"
                                        ELSE "is_duplicate"]
             /\ handler_peers' = [g \in Handlers |->
                                    IF g = h THEN together
                                    ELSE IF g \in together THEN handler_peers[g] \cup {h}
                                    ELSE handler_peers[g] \ {h}]
    /\ handler_result' = [handler_result EXCEPT ![h] = None]
    /\ handler_error' = [handler_error EXCEPT ![h] = None]
    /\ UNCHANGED <<plot_vars, loop_vars, scheduler_vars, processed_slack_events, insertion_order,
                   slack_event_lock>>

\* Line 39: async with _slack_event_lock
AcquireLock(h) ==
    /\ handler_pc[h] = "is_duplicate"
    /\ slack_event_lock = None
    /\ slack_event_lock' = h
    /\ handler_pc' = [handler_pc EXCEPT ![h] = "locked"]
    /\ UNCHANGED <<plot_vars, loop_vars, scheduler_vars, processed_slack_events, insertion_order,
                   handler_event, handler_result, handler_peers, handler_error,
                   handler_agent, handler_known, handler_reply>>

\* Lines 40-45: a known id returns True (and releases the lock); a new one is added.
CheckAndAdd(h) ==
    /\ handler_pc[h] = "locked"
    /\ IF handler_event[h] \in processed_slack_events
       THEN /\ handler_result' = [handler_result EXCEPT ![h] = "duplicate"]
            /\ handler_pc' = [handler_pc EXCEPT ![h] = "checked"]
            /\ slack_event_lock' = None
            /\ UNCHANGED <<processed_slack_events, insertion_order>>
       ELSE /\ processed_slack_events' = processed_slack_events \cup {handler_event[h]}
            /\ insertion_order' = Append(insertion_order, handler_event[h])
            /\ handler_pc' = [handler_pc EXCEPT ![h] = "added"]
            /\ UNCHANGED <<handler_result, slack_event_lock>>
    /\ UNCHANGED <<plot_vars, loop_vars, scheduler_vars, handler_event, handler_peers, handler_error,
                   handler_agent, handler_known, handler_reply>>

\* Lines 46-49: over the size, pop(); then the lock is released and False returned.
TrimAndRelease(h) ==
    /\ handler_pc[h] = "added"
    /\ IF NeedsEviction(processed_slack_events)
       THEN \E x \in PopResults(processed_slack_events) :
              /\ processed_slack_events' = processed_slack_events \ {x}
              /\ insertion_order' = Without(insertion_order, x)
              /\ handler_known' = [g \in Handlers |->
                                     handler_known[g] /\ handler_event[g] # x]
       ELSE UNCHANGED <<processed_slack_events, insertion_order, handler_known>>
    /\ slack_event_lock' = None
    /\ handler_result' = [handler_result EXCEPT ![h] = "not_duplicate"]
    /\ handler_pc' = [handler_pc EXCEPT ![h] = "checked"]
    /\ UNCHANGED <<plot_vars, loop_vars, scheduler_vars, handler_event, handler_peers, handler_error,
                   handler_agent, handler_reply>>

\* (a plausible slip: the result of the duplicate check is not acted on)
AfterDuplicateCheck_Proceeds(h) ==
    /\ handler_pc[h] = "checked"
    /\ handler_pc' = [handler_pc EXCEPT ![h] = "check_connection"]
    /\ UNCHANGED <<plot_vars, loop_vars, scheduler_vars, processed_slack_events, insertion_order,
                   slack_event_lock, handler_event, handler_result, handler_peers,
                   handler_error, handler_agent, handler_known, handler_reply>>

\* main lines 239-241: a duplicate is ignored; anything else goes on.
AfterDuplicateCheck(h) ==
    /\ handler_pc[h] = "checked"
    /\ handler_pc' = [handler_pc EXCEPT
                        ![h] = IF handler_result[h] = "duplicate"
                               THEN "idle" ELSE "check_connection"]
    /\ UNCHANGED <<plot_vars, loop_vars, scheduler_vars, processed_slack_events, insertion_order,
                   slack_event_lock, handler_event, handler_result, handler_peers,
                   handler_error,
                   handler_agent, handler_known, handler_reply>>

\* main lines 253-265: without a connection an error message is sent and main
\* returns; lines 267-305 otherwise prepare the reply and the stream callback.
CheckConnection(h) ==
    /\ handler_pc[h] = "check_connection"
    /\ \E connected \in BOOLEAN :
         /\ handler_pc' = [handler_pc EXCEPT
                             ![h] = IF connected THEN "run_async" ELSE "idle"]
         /\ handler_reply' = [handler_reply EXCEPT
                                ![h] = IF connected THEN None ELSE "connection_error"]
    /\ UNCHANGED <<plot_vars, loop_vars, scheduler_vars, processed_slack_events, insertion_order,
                   slack_event_lock, handler_event, handler_result, handler_peers,
                   handler_error,
                   handler_agent, handler_known>>

\* What agent.run_async(message.content, chat_history=..., stream_callback=...)
\* of main lines 307-311 does, given the parameters of workflow.py line 366
\* (self, user_input, chainlit_message, chat_history): binding the keyword
\* stream_callback fails with TypeError before the body runs.
RunAsyncParameters == {"user_input", "chainlit_message", "chat_history"}
MainKeywords == {"chat_history", "stream_callback"}
BindArguments == IF MainKeywords \subseteq RunAsyncParameters THEN None ELSE "TypeError"

CallRunAsync(h) ==
    /\ handler_pc[h] = "run_async"
    /\ handler_error' = [handler_error EXCEPT ![h] = BindArguments]
    /\ handler_pc' = [handler_pc EXCEPT ![h] = "except"]
    /\ UNCHANGED <<plot_vars, loop_vars, scheduler_vars, processed_slack_events, insertion_order,
                   slack_event_lock, handler_event, handler_result, handler_peers,
                   handler_agent, handler_known, handler_reply>>

\* main lines 387-392: except Exception sends the error message; main returns.
ExceptHandler(h) ==
    /\ handler_pc[h] = "except"
    /\ handler_pc' = [handler_pc EXCEPT ![h] = "idle"]
    /\ handler_reply' = [handler_reply EXCEPT ![h] = "exception_error"]
    /\ UNCHANGED <<plot_vars, loop_vars, scheduler_vars, processed_slack_events, insertion_order,
                   slack_event_lock, handler_event, handler_result, handler_peers,
                   handler_error,
                   handler_agent, handler_known>>

AppInit == LoopIdle /\ AppIdle /\ SchedulerIdle /\ PlotIdle

AppNext ==
    \E h \in Handlers :
        \/ Deliver(h)
        \/ AcquireLock(h)
        \/ CheckAndAdd(h)
        \/ TrimAndRelease(h)
        \/ AfterDuplicateCheck(h)
        \/ CheckConnection(h)
        \/ CallRunAsync(h)
        \/ ExceptHandler(h)

AppSpec == AppInit /\ [][AppNext]_vars

---------------------------------------------------------------------------
(* src/scheduler.py: SnowAnalysisScheduler.post_to_slack *)

\* A text is modelled by its length in characters; an analysis by the lengths of
\* its sections, the pieces that analysis.split("\n\n") gives.  A message to post
\* is a record: `part` is 0 for the single message and the part number of a
\* chunk otherwise, `sections` the positions of the sections it holds.

\* Line 69: max_length = 3800
max_length == 3800

\* len(timestamp) for "%B %d, %Y at %I:%M %p": from "May ..." to "September ..."
TimestampLengths == {24, 30}
SectionLengths == {0, 40, 1900, 3700, 3800}

RECURSIVE SumLen(_, _)
SumLen(lengths, idx) ==
    IF idx = <<>> THEN 0 ELSE lengths[Head(idx)] + SumLen(lengths, Tail(idx))

\* len(str(part_num))
Digits(n) == IF n < 10 THEN 1 ELSE IF n < 100 THEN 2 ELSE 3

\* Line 66: header, "_", timestamp, "_\n\n", then the analysis with its
\* sections joined by "\n\n".
SingleMessageLen(ts, lengths) ==
    39 + ts + SumLen(lengths, [i \in 1..Len(lengths) |-> i]) + 2 * (Len(lengths) - 1)

\* Line 74: "... Update (Part 1)*\n_", timestamp, "_\n\n"
FirstHeaderLen(ts) == 48 + ts

\* Line 84: "*...continued (Part N)*\n\n"
ContinuedHeaderLen(part_num) == 24 + Digits(part_num)

\* len(text) of a message
MessageLen(ts, lengths, m) ==
    IF m.part = 0 THEN SingleMessageLen(ts, lengths)
    ELSE (IF m.part = 1 THEN FirstHeaderLen(ts) ELSE ContinuedHeaderLen(m.part))
         + SumLen(lengths, m.sections) + 2 * Len(m.sections)

\* (a plausible slip: the section that overflows the chunk is not carried over)
RECURSIVE SplitSections_DropsSection(_, _, _, _, _, _)
SplitSections_DropsSection(ts, lengths, i, part_num, held, done) ==
    LET current_chunk == [part |-> part_num, sections |-> held]
    IN  IF i > Len(lengths) THEN Append(done, current_chunk)
        ELSE IF MessageLen(ts, lengths, current_chunk) + lengths[i] + 2 > max_length
             THEN SplitSections_DropsSection(ts, lengths, i + 1, part_num + 1, <<>>,
                                             Append(done, current_chunk))
        ELSE SplitSections_DropsSection(ts, lengths, i + 1, part_num,
                                        Append(held, i), done)

\* Lines 79-89: the loop over the sections from position i on, current_chunk
\* being part part_num holding `held`; the chunks are appended to `done`.
RECURSIVE SplitSections(_, _, _, _, _, _)
SplitSections(ts, lengths, i, part_num, held, done) ==
    LET current_chunk == [part |-> part_num, sections |-> held]
    IN  IF i > Len(lengths) THEN Append(done, current_chunk)
        ELSE IF MessageLen(ts, lengths, current_chunk) + lengths[i] + 2 > max_length
             THEN SplitSections(ts, lengths, i + 1, part_num + 1, <<i>>,
                                Append(done, current_chunk))
        ELSE SplitSections(ts, lengths, i + 1, part_num, Append(held, i), done)

\* Lines 66-89 and 104: the messages post_to_slack sets out to post.
FormatMessages(ts, lengths) ==
    IF SingleMessageLen(ts, lengths) > max_length
    THEN SplitSections(ts, lengths, 1, 1, <<>>, <<>>)
    ELSE <<[part |-> 0, sections |-> [i \in 1..Len(lengths) |-> i]]>>

AnalysisTexts == UNION {[1..n -> SectionLengths] : n \in 1..MaxSections}

\* post_to_slack(analysis) is called at some time of day.
SchedulerInit ==
    /\ LoopIdle
    /\ AppIdle
    /\ PlotIdle
    /\ scheduler_pc = "called"
    /\ timestamp \in TimestampLengths
    /\ analysis \in AnalysisTexts
    /\ chunks = <<>>
    /\ posted = <<>>
    /\ global_scheduler = NoScheduler
    /\ stopped_scheduler = NoScheduler
    /\ previous_call = "none"
    /\ last_call = "none"

\* Lines 63-89: the message, or its chunks, are built.
FormatMessage ==
    /\ scheduler_pc = "called"
    /\ chunks' = FormatMessages(timestamp, analysis)
    /\ scheduler_pc' = "posting"
    /\ UNCHANGED <<plot_vars, loop_vars, app_vars, timestamp, analysis, posted,
                   global_scheduler, stopped_scheduler, previous_call, last_call>>

\* Lines 92-111: chat_postMessage is given the next message.
PostMessage ==
    /\ scheduler_pc = "posting"
    /\ posted' = Append(posted, chunks[Len(posted) + 1])
    /\ scheduler_pc' = IF Len(posted') = Len(chunks) THEN "done" ELSE "posting"
    /\ UNCHANGED <<plot_vars, loop_vars, app_vars, timestamp, analysis, chunks,
                   global_scheduler, stopped_scheduler, previous_call, last_call>>

\* Lines 114-118: chat_postMessage raises; the error is logged and the call ends.
PostRaises ==
    /\ scheduler_pc = "posting"
    /\ scheduler_pc' = "failed"
    /\ UNCHANGED <<plot_vars, loop_vars, app_vars, timestamp, analysis, chunks, posted,
                   global_scheduler, stopped_scheduler, previous_call, last_call>>

---------------------------------------------------------------------------
(* src/scheduler.py: the global scheduler, start_scheduler and stop_scheduler *)

\* The one job id of line 127.
JobId == "snow_analysis_6hr"

\* Lines 18-22: SnowAnalysisScheduler(): an AsyncIOScheduler that is not started
\* and has no job.  `running` is self.scheduler.running, `jobs` the ids of
\* self.scheduler.get_jobs().
NewScheduler == [is_running |-> FALSE, running |-> FALSE, jobs |-> <<>>]

\* add_job(..., id=job_id, replace_existing=True): a job with that id is replaced.
add_job(jobs, job_id) ==
    IF \E i \in 1..Len(jobs) : jobs[i] = job_id THEN jobs ELSE Append(jobs, job_id)

\* (a plausible slip: no is_running guard and no replace_existing)
start_Unguarded(s) ==
    [is_running |-> TRUE, running |-> TRUE, jobs |-> Append(s.jobs, JobId)]

\* Lines 119-152: SnowAnalysisScheduler.start
start(s) ==
    IF s.is_running THEN s
    ELSE [is_running |-> TRUE, running |-> TRUE, jobs |-> add_job(s.jobs, JobId)]

\* Lines 154-159: SnowAnalysisScheduler.stop; shutdown() leaves the job store
stop(s) ==
    IF s.running THEN [s EXCEPT !.running = FALSE, !.is_running = FALSE] ELSE s

\* Lines 174-179
get_scheduler == IF global_scheduler = NoScheduler THEN NewScheduler ELSE global_scheduler

\* Lines 174-179: get_scheduler() called on its own (app.py line 431).
GetScheduler ==
    /\ global_scheduler' = get_scheduler
    /\ UNCHANGED <<plot_vars, loop_vars, app_vars, scheduler_pc, timestamp, analysis, chunks,
                   posted, stopped_scheduler, previous_call, last_call>>

\* Lines 182-185
StartScheduler ==
    /\ global_scheduler' = start(get_scheduler)
    /\ previous_call' = last_call
    /\ last_call' = "start_scheduler"
    /\ UNCHANGED <<plot_vars, loop_vars, app_vars, scheduler_pc, timestamp, analysis, chunks,
                   posted, stopped_scheduler>>

\* Lines 188-193: a falsy _scheduler is left alone; else it is stopped and dropped.
StopScheduler ==
    /\ IF global_scheduler # NoScheduler
       THEN /\ stopped_scheduler' = stop(global_scheduler)
            /\ global_scheduler' = NoScheduler
       ELSE UNCHANGED <<global_scheduler, stopped_scheduler>>
    /\ previous_call' = last_call
    /\ last_call' = "stop_scheduler"
    /\ UNCHANGED <<plot_vars, loop_vars, app_vars, scheduler_pc, timestamp, analysis, chunks,
                   posted>>

SchedulerNext ==
    \/ FormatMessage
    \/ PostMessage
    \/ PostRaises
    \/ GetScheduler
    \/ StartScheduler
    \/ StopScheduler

SchedulerSpec == SchedulerInit /\ [][SchedulerNext]_vars

---------------------------------------------------------------------------
(* src/app.py: run_async followed by generate_weather_plots_if_needed *)

\* What main lines 307-361 do with the agent of the session, for requests that
\* are in main at once: await agent.run_async(...), then
\* await generate_weather_plots_if_needed(agent, response_message).  The turns a
\* run returns are built with the loop's own _tool_use_node.

\* app.py line 73
stevens_pass_tools == {"stevens_pass_comprehensive_weather", "stevens_pass_snow_analysis"}

\* The capabilities the runs of this part dispatch.
DispatchedTools == stevens_pass_tools \cup {"search"}

\* result["messages"] of a run on the input "u": a direct answer, or one
\* dispatch (returning or raising) followed by the answer.
RunResults ==
    {<<HumanMessage(<<"u">>), AIMessage(<<"p">>)>>}
    \cup {Append(tool_use_node(<<HumanMessage(<<"u">>)>>, t, Uuid(1), o).messages,
                 AIMessage(<<"p">>))
             : t \in DispatchedTools,
               o \in {[kind |-> "return", text |-> <<"p">>],
                      [kind |-> "raise", text |-> <<"p">>]}}

\* app.py lines 70-86: a message of the state carries one of the two names.
tool_was_used(state) ==
    \E i \in 1..Len(state.messages) : state.messages[i].name \in stevens_pass_tools

\* workflow.py lines 386-394 and 411-416: run_async is entered; without a
\* connection it returns the error text and leaves last_result_state alone.
RunAsyncEntered(r) ==
    /\ request_pc[r] \in {"idle", "done", "raised"}
    /\ \E connected \in BOOLEAN :
         request_pc' = [request_pc EXCEPT ![r] = IF connected THEN "invoking" ELSE "returned"]
    /\ request_turns' = [request_turns EXCEPT ![r] = <<>>]
    /\ plots_sent' = [plots_sent EXCEPT ![r] = FALSE]
    /\ UNCHANGED <<loop_vars, app_vars, scheduler_vars, session_slack, last_result_state>>

\* workflow.py lines 443-446: graph.invoke returns in the executor and the
\* result is stored on the agent; lines 447-484 then return the text.
GraphInvokeReturns(r) ==
    /\ request_pc[r] = "invoking"
    /\ \E result \in RunResults :
         /\ last_result_state' = [messages |-> result]
         /\ request_turns' = [request_turns EXCEPT ![r] = result]
    /\ request_pc' = [request_pc EXCEPT ![r] = "returned"]
    /\ UNCHANGED <<loop_vars, app_vars, scheduler_vars, session_slack, plots_sent>>

\* workflow.py lines 488-494: graph.invoke raises, run_async raises, and main's
\* except block (app.py lines 387-392) ends the request.
GraphInvokeRaises(r) ==
    /\ request_pc[r] = "invoking"
    /\ request_pc' = [request_pc EXCEPT ![r] = "raised"]
    /\ UNCHANGED <<loop_vars, app_vars, scheduler_vars, session_slack, last_result_state,
                   request_turns, plots_sent>>

\* app.py lines 52-125: generate_weather_plots_if_needed(agent, ...).  With the
\* tool found, the plots are sent unless there is no grid data, no figure, or an
\* exception (lines 96-125).
GenerateWeatherPlots(r) ==
    /\ request_pc[r] = "returned"
    /\ IF session_slack THEN plots_sent' = plots_sent
       ELSE IF last_result_state = NoState THEN plots_sent' = plots_sent
       ELSE IF ~tool_was_used(last_result_state) THEN plots_sent' = plots_sent
       ELSE \E sent \in BOOLEAN : plots_sent' = [plots_sent EXCEPT ![r] = sent]
    /\ request_pc' = [request_pc EXCEPT ![r] = "done"]
    /\ UNCHANGED <<loop_vars, app_vars, scheduler_vars, session_slack, last_result_state,
                   request_turns>>

\* A session is a Slack session or not; its agent has no result state yet.
PlotInit ==
    /\ LoopIdle
    /\ AppIdle
    /\ SchedulerIdle
    /\ session_slack \in BOOLEAN
    /\ last_result_state = NoState
    /\ request_pc = [r \in Requests |-> "idle"]
    /\ request_turns = [r \in Requests |-> <<>>]
    /\ plots_sent = [r \in Requests |-> FALSE]

PlotNext ==
    \E r \in Requests :
        \/ RunAsyncEntered(r)
        \/ GraphInvokeReturns(r)
        \/ GraphInvokeRaises(r)
        \/ GenerateWeatherPlots(r)

PlotSpec == PlotInit /\ [][PlotNext]_vars

---------------------------------------------------------------------------
(* Claims *)

\* The model call of this step returned: response' is the raw output.
ModelReturned == pc = "agent" /\ llm_calls' = llm_calls + 1 /\ raised' # "GatewayFailure"

NoPending == current_tool = None /\ tool_input = PyNone /\ tool_call_id = None
DirectAnswerStep ==
    /\ pc' = "tool_use"
    /\ messages' = Append(messages, AIMessage(response'))
    /\ current_tool' = None
    /\ tool_input' = PyNone
    /\ tool_call_id' = None

\* The trimmed text does not begin with '{'.
NoLeadingBrace(t) == LStrip(t) = <<>> \/ Head(LStrip(t)) # "{"

\* C1: a model output whose whitespace-trimmed form does not begin with '{'
\* (a JSON tool call preceded by prose included) is a direct answer: the pass
\* appends exactly one Assistant turn holding the output unmodified and leaves
\* current_tool, tool_input and tool_call_id None.
C1_NoLeadingBraceIsDirectAnswer ==
    [][(ModelReturned /\ NoLeadingBrace(response')) => DirectAnswerStep]_vars

C1_Witness ==
    /\ pc = "tool_use"
    /\ response = <<"p", "{", "action:", "search", ",", "input:", "{", "query:", "q", "}", "}">>
    /\ messages[Len(messages)] = AIMessage(response)
    /\ NoPending

\* The JSON object {"action": X, "input": I}, and the one with no "input" key.
CallWithInput(X, I) == <<"{", "action:", X, ",", "input:">> \o I \o <<"}">>
CallWithoutInput(X) == <<"{", "action:", X, "}">>

\* C2: a well-formed JSON object {"action": X, "input": I}, whitespace around it
\* or not, with X a registered capability name, yields the pending invocation
\* X with input I; with no "input" key the pending input is the empty mapping.
C2_WellFormedCallIsToolInvocation ==
    [][ModelReturned =>
         \A X \in ToolNames :
            /\ \A I \in InputValues :
                 DropWhitespace(response') = CallWithInput(X, I)
                    => /\ pc' = "tool_use"
                       /\ current_tool' = X
                       /\ tool_input' = (IF I = <<"null">> THEN PyNone ELSE I)
            /\ DropWhitespace(response') = CallWithoutInput(X)
                 => /\ pc' = "tool_use"
                    /\ current_tool' = X
                    /\ tool_input' = EmptyDict]_vars

C2_Witness ==
    /\ pc = "tool_use"
    /\ response = <<"_", "{", "action:", "stevens_pass_comprehensive_weather", "}", "_">>
    /\ current_tool = "stevens_pass_comprehensive_weather"
    /\ tool_input = EmptyDict

\* The text is one JSON object whose action is "response", is absent (or null),
\* or is no registered name.
ActionField(t) == DictGet(t, "action:", PyNone)
IsNonToolObject(t) ==
    /\ Decodes(t)
    /\ \/ ActionField(t) = <<"response">>
       \/ ActionField(t) = PyNone
       \/ ~(\E n \in ToolNames : ActionField(t) = <<n>>)

\* C3: a well-formed JSON object whose action is "response", is absent or does
\* not resolve in the registry is a direct answer holding the raw text, and the
\* dispatch that follows calls no capability and adds no turn.
C3_NonToolObjectIsDirectAnswer ==
    /\ [][(ModelReturned /\ IsNonToolObject(response')) => DirectAnswerStep]_vars
    /\ [][(pc = "tool_use" /\ classification = "DirectAnswer")
            => (tool_calls' = tool_calls /\ messages' = messages)]_vars

C3_Witness ==
    /\ pc = "should_continue"
    /\ classification = "DirectAnswer"
    /\ messages[Len(messages)] =
         AIMessage(<<"{", "action:", "unregistered_tool", ",", "input:", "{", "}", "}">>)
    /\ tool_calls = 0

C5_EveryRunReachesDone == pc = "raised" => raised = "GatewayFailure"

\* C6: a Dispatching visit with a pending invocation calls at most one
\* capability and appends exactly one ToolResult turn; a visit with none calls
\* no capability and leaves the turns as they are.
C6_OneCapabilityOneToolResult ==
    [][pc = "tool_use" =>
         IF current_tool # None
         THEN /\ tool_calls' \in {tool_calls, tool_calls + 1}
              /\ Len(messages') = Len(messages) + 1
              /\ SubSeq(messages', 1, Len(messages)) = messages
              /\ messages'[Len(messages')].type = "tool"
         ELSE /\ tool_calls' = tool_calls
              /\ messages' = messages]_vars

C6_Witness ==
    /\ pc = "should_continue"
    /\ tool_calls = 1
    /\ tool_outcome.kind = "return"
    /\ Cardinality({i \in 1..Len(messages) : messages[i].type = "tool"}) = 1

\* C7: a Reasoning pass that yields a tool invocation leaves the turns as they
\* were on entry (the raw JSON call is not appended); the dispatch then adds
\* the ToolResult turn and nothing else.
C7_ToolInvocationAppendsNothing ==
    /\ [][(ModelReturned /\ current_tool' # None) => messages' = messages]_vars
    /\ [][(pc = "tool_use" /\ current_tool # None)
            => /\ Len(messages') = Len(messages) + 1
               /\ SubSeq(messages', 1, Len(messages)) = messages
               /\ messages'[Len(messages')].type = "tool"]_vars

C7_Witness ==
    /\ pc = "should_continue"
    /\ classification = "ToolInvocation"
    /\ messages = Append(InitialMessages(entry, user_input, chat_history),
                         messages[Len(messages)])
    /\ messages[Len(messages)].type = "tool"

\* C8: once a Reasoning pass has yielded a direct answer, no model generation
\* and no capability call follows and the run goes on to Done; a run whose
\* first pass is a direct answer has made one pass and no dispatch.
C8_DirectAnswerEndsRun ==
    /\ [][classification = "DirectAnswer"
            => /\ llm_calls' = llm_calls
               /\ tool_calls' = tool_calls
               /\ pc' \in {"should_continue", "end", "extract", "done"}]_vars
    /\ [](classification = "DirectAnswer" => (pc = "done" \/ ENABLED Next))
    /\ []((pc = "done" /\ Len(messages) = Len(InitialMessages(entry, user_input, chat_history)) + 1)
            => (llm_calls = 1 /\ tool_calls = 0))

C8_Witness ==
    /\ pc = "done"
    /\ classification = "DirectAnswer"
    /\ llm_calls = 1
    /\ tool_calls = 0

\* At Done the last turn is the Assistant turn of the final Reasoning pass.
FinalAnswer == messages[Len(messages)].content

\* C9 as stated: at Done the returned text is the content of the Assistant turn
\* appended by the final Reasoning pass, whatever that text and the history.
C9_ReturnsFinalAssistantTurn == pc = "done" => final_response = FinalAnswer

\* C9 as amended: ... whenever that content is not empty and holds no banner
\* marker ("Connected to", "Tools Available").
C9_ReturnsFinalAnswerUnlessEmptyOrBanner ==
    (pc = "done" /\ FinalAnswer # <<>> /\ ~HasBanner(FinalAnswer))
        => final_response = FinalAnswer

C9_Witness ==
    /\ pc = "done"
    /\ entry = "run_async"
    /\ Len(chat_history) = 4
    /\ tool_calls = 1
    /\ FinalAnswer = <<"{", "p", "}">>
    /\ final_response = FinalAnswer

\* C10: when the dispatched capability raises, nothing leaves the loop: exactly
\* one ToolResult turn is appended, its text "Tool execution error: " followed
\* by the exception's message, carrying the pending correlation token; the
\* pending invocation is cleared and the loop goes back to Reasoning.
C10_CapabilityErrorBecomesToolResult ==
    /\ [][(pc = "tool_use" /\ tool_outcome'.kind = "raise")
            => /\ tool_call_id # None
               /\ messages' = Append(messages,
                     ToolMessage(<<"Tool execution error: ">> \o tool_outcome'.text,
                                 tool_call_id, None))
               /\ current_tool' = None
               /\ tool_input' = PyNone
               /\ tool_call_id' = None
               /\ raised' = None
               /\ pc' = "should_continue"]_vars
    /\ [][(pc = "should_continue" /\ tool_outcome.kind = "raise") => pc' = "agent"]_vars

C10_Witness ==
    /\ pc = "agent"
    /\ tool_outcome.kind = "raise"
    /\ messages[Len(messages)].type = "tool"
    /\ messages[Len(messages)].content = <<"Tool execution error: ", "p">>
    /\ messages[Len(messages)].tool_call_id = "uuid-1"
    /\ NoPending

\* The pending name does not resolve in the registry.
NameUnresolved == current_tool # None /\ get_tool_by_name(current_tool) = None
LastTurn == messages[Len(messages)]

\* C11: when the pending invocation's name does not resolve in the registry,
\* the dispatch calls nothing and appends one ToolResult turn whose text says
\* "not found", carrying the pending correlation token; the pending invocation
\* is cleared and the loop goes back to Reasoning instead of ending.
C11_UnresolvedNameBecomesToolResult ==
    /\ [][(pc = "tool_use" /\ NameUnresolved)
            => /\ tool_call_id # None
               /\ messages' = Append(messages,
                     [type |-> "tool",
                      content |-> <<"Tool '", current_tool, "' not found">>,
                      name |-> None,
                      tool_call_id |-> tool_call_id])
               /\ tool_calls' = tool_calls
               /\ current_tool' = None
               /\ tool_input' = PyNone
               /\ tool_call_id' = None
               /\ pc' = "should_continue"]_vars
    /\ [][(pc = "should_continue" /\ LastTurn.type = "tool"
             /\ LastTurn.content # <<>>
             /\ LastTurn.content[Len(LastTurn.content)] = "' not found")
            => pc' = "agent"]_vars

C11_Witness ==
    /\ pc = "agent"
    /\ LastTurn = ToolMessage(<<"Tool '", "unregistered_tool", "' not found">>, "uuid-2", None)
    /\ Len(messages) = 4
    /\ tool_calls = 0
    /\ NoPending

\* The positions of the ToolResult turns, and how many there are up to position i.
ToolTurns == {i \in 1..Len(messages) : messages[i].type = "tool"}
ToolTurnsUpTo(i) == Cardinality({j \in ToolTurns : j <= i})

\* C12: every ToolResult turn carries the token generated when the interpreter
\* recognised the invocation that produced it (the k-th turn the k-th token,
\* a dispatch copying the pending token), and no two ToolResult turns of a run
\* carry the same token.
C12_ToolResultCarriesItsToken ==
    /\ [](\A i \in ToolTurns : messages[i].tool_call_id = Uuid(ToolTurnsUpTo(i)))
    /\ [](\A i, j \in ToolTurns : i # j => messages[i].tool_call_id # messages[j].tool_call_id)
    /\ [](current_tool # None => tool_call_id = Uuid(uuid_count))
    /\ [][(ModelReturned /\ current_tool' # None)
            => (uuid_count' = uuid_count + 1 /\ tool_call_id' = Uuid(uuid_count'))]_vars
    /\ [][(pc = "tool_use" /\ current_tool # None)
            => messages'[Len(messages')].tool_call_id = tool_call_id]_vars

C12_Witness ==
    /\ pc = "agent"
    /\ Cardinality(ToolTurns) = 2
    /\ messages[Len(messages) - 1].tool_call_id = "uuid-1"
    /\ messages[Len(messages)].tool_call_id = "uuid-2"
    /\ tool_outcome.kind = "raise"

\* C13: when check_connection() is false the call returns the provider's error
\* text and the loop is never entered: no model call, no capability call, no
\* turn, and nothing happens after the return.
C13_ConnectionFailureShortCircuits ==
    /\ [](pc = "returned"
            => /\ final_response \in {<<"Error: Cannot connect to ", "ollama">>,
                                      <<"Error: Cannot connect to ", "openai">>}
               /\ llm_calls = 0
               /\ tool_calls = 0
               /\ uuid_count = 0
               /\ messages = <<>>
               /\ raised = None)
    /\ [][pc = "start" => (pc' = "returned" \/ final_response' = final_response)]_vars
    /\ [][pc = "returned" => FALSE]_vars

C13_Witness ==
    /\ pc = "returned"
    /\ entry = "run_async"
    /\ chat_history # <<>>
    /\ final_response = <<"Error: Cannot connect to ", "openai">>

\* C14: when the model call of a Reasoning pass raises, the pass appends no
\* turn, the exception leaves run() / run_async(), and nothing follows: no
\* further model call, no dispatch, no returned text.
C14_GatewayFailurePropagates ==
    /\ [][(pc = "agent" /\ raised' = "GatewayFailure")
            => /\ pc' = "raised"
               /\ messages' = messages
               /\ final_response' = final_response]_vars
    /\ [](raised = "GatewayFailure" => (pc = "raised" /\ final_response = PyNone))
    /\ [][pc = "raised" => FALSE]_vars

C14_Witness ==
    /\ pc = "raised"
    /\ raised = "GatewayFailure"
    /\ llm_calls = 2
    /\ tool_calls = 1
    /\ LastTurn.type = "tool"

IsPrefix(s, t) == Len(s) <= Len(t) /\ SubSeq(t, 1, Len(s)) = s

\* C15: within a run the turn sequence is append-only: every step leaves the
\* sequence it found as a prefix of the one it leaves.
C15_TurnsAreAppendOnly == [][IsPrefix(messages, messages')]_vars

C15_Witness ==
    /\ pc = "done"
    /\ Len(chat_history) = 4
    /\ Len(messages) = 5
    /\ SubSeq(messages, 1, 3) = ConvertHistory(chat_history)
    /\ messages[4].type = "tool"
    /\ messages[5].type = "ai"

\* C16: the entry point the chat front-end calls accepts the incremental
\* callback it is handed (and generation then calls it once per fragment):
\* no call that main() makes with its stream callback is rejected.
C16_RunAsyncTakesStreamCallback == \A h \in Handlers : handler_error[h] # "TypeError"

\* C17: when the set of processed ids is over its bound, the id removed is the
\* one inserted longest ago, and never the id the same call has just inserted
\* (so that an immediate redelivery of the newest event is still a duplicate).
C17_EvictsOldestInsertion ==
    /\ [][\A x \in processed_slack_events \ processed_slack_events' :
             x = Head(insertion_order)]_vars
    /\ [][\A h \in Handlers :
             (handler_pc[h] = "added" /\ handler_pc'[h] = "checked")
                => handler_event[h] \in processed_slack_events']_vars

\* No handler is inside the critical section of is_duplicate_slack_event.
NoCallInProgress == slack_event_lock = None

\* C18: after every completed call of is_duplicate_slack_event, in any
\* interleaving of handlers, the set holds at most its bound of ids (and one
\* more at most while a call is between its add and its pop).
C18_ProcessedSetIsBounded ==
    /\ NoCallInProgress => Cardinality(processed_slack_events) <= MaxProcessedEvents
    /\ Cardinality(processed_slack_events) <= MaxProcessedEvents + 1

C18_Witness ==
    /\ NoCallInProgress
    /\ Cardinality(processed_slack_events) = MaxProcessedEvents
    /\ \E h \in Handlers :
         /\ handler_pc[h] = "checked"
         /\ handler_result[h] = "not_duplicate"
         /\ handler_event[h] \in processed_slack_events
         /\ Head(insertion_order) # handler_event[h]
         /\ \E g \in Handlers \ {h} :
              /\ handler_result[g] = "not_duplicate"
              /\ handler_event[g] \notin processed_slack_events

\* C19: of two handlers that serve the same event id at once, the id absent
\* from the set when both began their duplicate check, exactly one is told
\* "not a duplicate" and the other "duplicate", in every interleaving.
C19_ExactlyOneHandlerProceeds ==
    \A h \in Handlers : \A g \in handler_peers[h] :
        (handler_result[h] # None /\ handler_result[g] # None)
            => {handler_result[h], handler_result[g]} = {"not_duplicate", "duplicate"}

\* C20: every message post_to_slack gives to the channel is at most
\* max_length (3800) characters long, whatever the analysis text.
C20_EveryMessageWithinMaxLength ==
    \A i \in 1..Len(posted) : MessageLen(timestamp, analysis, posted[i]) <= max_length

\* A Reasoning pass starts in this step (its prompt is built before the model
\* call, whether the call returns or raises).
PassStep == pc = "agent" /\ llm_calls' = llm_calls + 1

PromptContents == [i \in 1..Len(prompt.conversation) |-> prompt.conversation[i].content]

\* C23 as stated: the prompt of a Reasoning pass holds no turn, of any role,
\* whose content holds a banner marker.
C23_NoBannerTurnInPrompt ==
    \A i \in 1..Len(prompt.conversation) : ~HasBanner(prompt.conversation[i].content)

\* The turns of the window other than the Assistant turns that hold a marker.
AllButAssistantBanners(msgs) ==
    SelectSeq(IF Len(msgs) > 10 THEN SubSeq(msgs, Len(msgs) - 9, Len(msgs)) ELSE msgs,
              LAMBDA m : ~(m.type = "ai" /\ HasBanner(m.content)))

\* C23 as amended: the prompt holds no Assistant turn whose content holds a
\* banner marker, wherever it sits; every User and ToolResult turn of the
\* window is in the prompt, marker or not.
C23_NoAssistantBannerInPrompt ==
    /\ [](\A i \in 1..Len(prompt.conversation) :
            prompt.conversation[i].label = "Assistant"
                => ~HasBanner(prompt.conversation[i].content))
    /\ [][PassStep =>
            LET kept == AllButAssistantBanners(messages)
            IN  kept # <<>> =>
                  /\ Len(prompt'.conversation) = Len(kept)
                  /\ \A i \in 1..Len(kept) :
                        prompt'.conversation[i].content = kept[i].content]_vars

C23_Witness ==
    /\ pc = "tool_use"
    /\ llm_calls = 1
    /\ messages[1].type = "ai"
    /\ HasBanner(messages[1].content)
    /\ PromptContents = <<messages[2].content>>

\* C24: the prompt of a Reasoning pass carries the synthesis instruction
\* exactly when the last turn is a ToolResult; so does every pass that
\* follows a dispatch.
C24_SynthesisIffLastTurnIsToolResult ==
    /\ [][PassStep =>
            (prompt'.synthesis <=> (messages # <<>> /\ LastTurn.type = "tool"))]_vars
    /\ [][(PassStep /\ llm_calls >= 1) => prompt'.synthesis]_vars
    /\ [][(PassStep /\ llm_calls = 0) => ~prompt'.synthesis]_vars

C24_Witness ==
    /\ pc = "tool_use"
    /\ llm_calls = 2
    /\ tool_outcome.kind = "raise"
    /\ prompt.synthesis
    /\ prompt.conversation[Len(prompt.conversation)].label = "Tool Result"

IsNotFoundText(c) == c # <<>> /\ c[Len(c)] = "' not found"

\* C25: in a run of the loop no ToolResult turn with the "not found" text
\* exists: a pending invocation always names a registered capability.
C25_NotFoundBranchNeverTaken ==
    /\ \A i \in ToolTurns : ~IsNotFoundText(messages[i].content)
    /\ current_tool # None => get_tool_by_name(current_tool) # None

C25_Witness ==
    /\ pc = "done"
    /\ tool_calls = 1
    /\ LastTurn = AIMessage(<<"{", "action:", "unregistered_tool", "}">>)
    /\ \E i \in ToolTurns : messages[i].name = "search"

\* C26: the turn sequence handed to the loop ends with a User turn holding
\* user_input, for run() and for run_async() with any chat_history.
C26_InitialTurnsEndWithUserInput ==
    (pc = "agent" /\ llm_calls = 0)
        => (messages # <<>> /\ LastTurn = HumanMessage(user_input))

\* The fixed text of the last fallback.
NoResponseGenerated == <<"No response generated">>

\* The content of the most recent ToolResult turn if there is one and it is
\* not empty, else the last turn's content if not empty, else the fixed text.
ToolResultFallback ==
    IF ToolTurns # {} /\ messages[Max(ToolTurns)].content # <<>>
    THEN messages[Max(ToolTurns)].content
    ELSE IF LastTurn.content # <<>> THEN LastTurn.content
    ELSE NoResponseGenerated

\* C27 as stated: a normal return gives a non-empty text; when the final
\* Assistant turn is empty or skipped as a banner it is the most recent
\* ToolResult's content, else the last turn's content, else the fixed text.
C27_NonEmptyWithToolResultFallback ==
    /\ pc \in {"done", "returned"} => final_response # <<>>
    /\ (pc = "done" /\ (FinalAnswer = <<>> \/ HasBanner(FinalAnswer)))
          => final_response = ToolResultFallback

\* The Assistant turns that hold no banner marker.
PlainAssistantTurns ==
    {i \in 1..Len(messages) : messages[i].type = "ai" /\ ~HasBanner(messages[i].content)}

\* C27 as amended: ... when the final Assistant turn is skipped as a banner
\* the result is first the content of the most recent Assistant turn without
\* a marker (one seeded from the history included); only when there is none,
\* or it is empty, does it fall back to the ToolResult, the last turn and the
\* fixed text.
C27_NonEmptyWithEarlierAssistantFirst ==
    /\ pc \in {"done", "returned"} => final_response # <<>>
    /\ pc = "done" =>
          IF PlainAssistantTurns # {} /\ messages[Max(PlainAssistantTurns)].content # <<>>
          THEN final_response = messages[Max(PlainAssistantTurns)].content
          ELSE final_response = ToolResultFallback

C27_Witness ==
    /\ pc = "done"
    /\ HasBanner(FinalAnswer)
    /\ ToolTurns # {}
    /\ messages[Max(ToolTurns)].content = <<"p">>
    /\ final_response = <<"p", "p">>

\* C28 as stated: the pending fields are all None at every entry to a
\* Reasoning pass and after every dispatch, and the three are always set or
\* cleared together.
C28_PendingFieldsSetTogether ==
    /\ pc # "tool_use" => NoPending
    /\ (current_tool = None) <=> (tool_input = PyNone)
    /\ (current_tool = None) <=> (tool_call_id = None)

\* C28 as amended: ... current_tool and tool_call_id are set or cleared
\* together, and tool_input is None whenever they are; with them set,
\* tool_input is None too when the call's "input" is JSON null.
C28_NameAndTokenSetTogether ==
    /\ pc # "tool_use" => NoPending
    /\ (current_tool = None) <=> (tool_call_id = None)
    /\ current_tool = None => tool_input = PyNone

C28_Witness ==
    /\ pc = "tool_use"
    /\ llm_calls = 2
    /\ current_tool = "search"
    /\ tool_call_id = "uuid-2"
    /\ tool_input = PyNone

RECURSIVE SectionsOf(_)
SectionsOf(ms) == IF ms = <<>> THEN <<>> ELSE Head(ms).sections \o SectionsOf(Tail(ms))

\* C21: when post_to_slack splits an analysis the chunks are numbered 1, 2, ...
\* and are posted in that order, and the paragraphs of the analysis are spread
\* over the chunks each exactly once and in their order.
C21_ChunksHoldEveryParagraphOnceInOrder ==
    /\ (chunks # <<>> /\ chunks[1].part # 0) =>
          /\ \A i \in 1..Len(chunks) : chunks[i].part = i
          /\ SectionsOf(chunks) = [i \in 1..Len(analysis) |-> i]
    /\ IsPrefix(posted, chunks)
    /\ scheduler_pc = "done" => posted = chunks

C21_Witness ==
    /\ scheduler_pc = "done"
    /\ Len(posted) = 3
    /\ posted[1].part = 1
    /\ posted[3].sections = <<3>>

\* There is a scheduler instance and its is_running is true.
SchedulerRunning == global_scheduler # NoScheduler /\ global_scheduler.is_running

\* C22: after any sequence of start_scheduler() and stop_scheduler() calls the
\* scheduler is running exactly when the last call was start_scheduler(); a
\* start_scheduler() while running changes nothing; no instance ever has more
\* than the one job.
C22_RunningIffLastCallWasStart ==
    /\ [](SchedulerRunning <=> last_call = "start_scheduler")
    /\ [](global_scheduler # NoScheduler =>
            /\ global_scheduler.running = global_scheduler.is_running
            /\ global_scheduler.jobs = IF global_scheduler.is_running
                                         THEN <<JobId>> ELSE <<>>)
    /\ [](stopped_scheduler # NoScheduler =>
            /\ ~stopped_scheduler.is_running
            /\ ~stopped_scheduler.running
            /\ Len(stopped_scheduler.jobs) <= 1)
    /\ [][(SchedulerRunning /\ last_call' = "start_scheduler")
            => global_scheduler' = global_scheduler]_vars

C22_Witness ==
    /\ previous_call = "start_scheduler"
    /\ last_call = "start_scheduler"
    /\ SchedulerRunning
    /\ global_scheduler.jobs = <<JobId>>
    /\ stopped_scheduler # NoScheduler
    /\ stopped_scheduler.jobs = <<JobId>>

\* The handler has gone past the duplicate check of its delivery.
PastDuplicateCheck(h) == handler_pc[h] \in {"check_connection", "run_async", "except"}

\* C29 as stated: a delivery of an id that was recorded before it, and has
\* stayed in the set, returns without the connectivity check, the model or a
\* capability and without any reply.
C29_RecordedIdIsIgnored ==
    \A h \in Handlers :
        handler_known[h] =>
            /\ ~PastDuplicateCheck(h)
            /\ handler_error[h] = None
            /\ handler_reply[h] = None

\* C29 as amended: ... in a session that holds an agent, such a delivery is
\* told "duplicate" and returns without the connectivity check, the model or
\* a capability and without any reply; a handler that goes on to the
\* connectivity check with a Slack id has recorded it first.
C29_RecordedIdIsIgnoredGivenAgent ==
    /\ [](\A h \in Handlers :
            (handler_known[h] /\ handler_agent[h]) =>
                /\ ~PastDuplicateCheck(h)
                /\ handler_error[h] = None
                /\ handler_reply[h] = None
                /\ handler_result[h] \in {None, "duplicate"}
                /\ handler_pc[h] = "idle" => handler_result[h] = "duplicate")
    /\ [][\A h \in Handlers :
            (handler_pc[h] = "locked" /\ handler_pc'[h] = "added")
                => handler_event[h] \in processed_slack_events']_vars
    /\ [][\A h \in Handlers :
            (handler_event'[h] # None /\ ~PastDuplicateCheck(h) /\ PastDuplicateCheck(h)')
                => handler_result[h] = "not_duplicate"]_vars

C29_Witness ==
    /\ handler_pc = [h \in Handlers |-> "idle"]
    /\ handler_event["h1"] = "e1"
    /\ handler_reply["h1"] = "connection_error"
    /\ handler_event["h2"] = "e1"
    /\ handler_agent["h2"]
    /\ handler_known["h2"]
    /\ handler_result["h2"] = "duplicate"
    /\ handler_reply["h2"] = None

====
